---- MODULE Spec2Model ----
(***************************************************************************)
(* Live flea prices: a timed HTTP pull of a price table, merged with a     *)
(* clamp into the host's price table (class Mod).                          *)
(*                                                                         *)
(* src/src/mod.ts and the unnamed source are two versions of the class.    *)
(* mod.ts adds the startup decision forceFetch and the fetchPrices          *)
(* parameter of fetchPrices with its cache-file branch; its updatePrices    *)
(* reads "await prices = Mod.fetchPrices()", taken here as the other        *)
(* version's "prices = await Mod.fetchPrices()".  The model is mod.ts; with *)
(* fetchPrices = true, which is all the program passes, it is the other.    *)
(*                                                                         *)
(* Numbers are fixed point: a price p is held as p * Scale, so that the    *)
(* product basePrice * maxIncreaseMult with a fractional multiplier (1.5)  *)
(* is exact.  A JSON object is a function from keys to numbers; a file is  *)
(* its text, a sequence of <<key, value>> members.                         *)
(***************************************************************************)
EXTENDS Integers, Sequences, FiniteSets, TLC

(* ------------------------------ bounds --------------------------------- *)
\* timer-triggered cycles that can be in flight at once (slots 1..MaxInFlight)
MaxInFlight == 2
\* config.maxRetries ranges over 0..MaxRetries
MaxRetries == 1

\* ticks per price unit of the fixed-point representation
Scale == 2
\* seconds added to the clock for nextUpdate
NextUpdateDelay == 3600

\* readings of the wall clock, Math.floor(Date.now() / 1000)
Clock == {1, 2}

Ids == {"a", "b"}
\* base prices the host knows (whole prices: 0, 1, 2) and multipliers 1.0, 1.5
BaseVals == {0, 2, 4}
MultVals == {2, 3}

ConfigKeys == {"nextUpdate", "maxIncreaseMult", "maxRetries"}
KeyOrder == <<"a", "b", "nextUpdate", "maxIncreaseMult", "maxRetries">>

Cycles == 0 .. MaxInFlight
TimerCycles == 1 .. MaxInFlight

(* ------------------------------- JSON ---------------------------------- *)
\* JSON.stringify of a flat object: its members, in key order
Stringify(obj) ==
    LET ks == SelectSeq(KeyOrder, LAMBDA k : k \in DOMAIN obj)
    IN  [i \in 1 .. Len(ks) |-> <<ks[i], obj[ks[i]]>>]

\* JSON.parse of such a text: the last member of a key wins
Parse(text) ==
    LET keys == {text[i][1] : i \in DOMAIN text}
        last(k) == CHOOSE i \in DOMAIN text :
                      /\ text[i][1] = k
                      /\ \A j \in DOMAIN text : text[j][1] = k => j <= i
    IN  [k \in keys |-> text[last(k)][2]]

\* every flat object over the keys ks with values in vs
Objects(ks, vs) == UNION {[d -> vs] : d \in SUBSET ks}

\* the tables the remote end may serve
Payloads == {[a |-> 1, b |-> 5], [a |-> 5, b |-> 1], [a |-> 5]}

NoFile == [exists |-> FALSE, text |-> <<>>]
File(text) == [exists |-> TRUE, text |-> text]

VARIABLES
    now,            \* the latest reading of Math.floor(Date.now() / 1000)
    configFile,     \* config/config.json
    pricesFile,     \* config/prices.json
    config,         \* Mod.config
    originalPrices, \* Mod.originalPrices
    updateTimer,    \* Mod.updateTimer: "undefined", "active" or "cleared"
    priceTable,     \* templates.prices of the host
    itemTable,      \* templates.items of the host (the ids it holds)
    handbook,       \* templates.handbook.Items of the host
    startup,        \* postDBLoadAsync: "init", "running", "scheduled", "aborted"
    pc,             \* per cycle: where its updatePrices / fetchPrices stands
    arg,            \* per cycle: the argument updatePrices was called with
    forced,         \* per cycle: the fetchPrices parameter of fetchPrices
    retries,        \* per cycle: the retries parameter of fetchPrices
    attempts,       \* per cycle: network calls made
    prices,         \* per cycle: the prices local
    regen           \* per cycle: calls of generateDynamicPrices

host == <<priceTable, itemTable, handbook>>
disk == <<configFile, pricesFile>>
cycle == <<pc, arg, forced, retries, attempts, prices, regen>>
vars == <<now, disk, config, originalPrices, updateTimer, host, startup, cycle>>

(* --------------------------- the price merger -------------------------- *)
\* a * m for a multiplier m held in ticks
Times(a, m) == (a * m) \div Scale

\* the loop without its continue: every fetched id counts as held
InItemTableAlways(id) == TRUE

\* !itemTable[itemId] is false: the item table holds the id
InItemTable(id) == id \in itemTable

\* handbookTable.Items.find(x => x.Id === itemId)?.Price ?? 0
HandbookPrice(id) ==
    LET hits == {i \in DOMAIN handbook : handbook[i].Id = id}
    IN  IF hits = {} THEN 0
        ELSE handbook[CHOOSE i \in hits : \A j \in hits : i <= j].Price

\* the fallback taken only when the snapshot has no entry (=== undefined)
BasePriceIfPresent(id) ==
    IF id \in DOMAIN originalPrices THEN originalPrices[id] ELSE HandbookPrice(id)

\* the clamp taken from the live table, not from the snapshot
BasePriceLive(id) ==
    IF id \in DOMAIN priceTable /\ priceTable[id] # 0
    THEN priceTable[id]
    ELSE HandbookPrice(id)

\* let basePrice = Mod.originalPrices[itemId]; if (!basePrice) basePrice = ...
BasePrice(id) ==
    IF id \in DOMAIN originalPrices /\ originalPrices[id] # 0
    THEN originalPrices[id]
    ELSE HandbookPrice(id)

\* const maxPrice = basePrice * Mod.config.maxIncreaseMult
MaxPrice(id) == Times(BasePrice(id), config.maxIncreaseMult)

\* the loop body without its clamp
MergedPriceUnclamped(id, fetched) == fetched

\* the value the loop body writes to priceTable[itemId]
MergedPrice(id, fetched) ==
    IF MaxPrice(id) # 0 /\ fetched <= MaxPrice(id) THEN fetched ELSE MaxPrice(id)

\* the ids the loop over p writes
Written(p) == {id \in DOMAIN p : InItemTable(id)}

\* the table rebuilt from the snapshot, so that what was not fetched is reset
ApplyLoopFromSnapshot(p) ==
    [id \in DOMAIN originalPrices \cup Written(p) |->
        IF id \in Written(p) THEN MergedPrice(id, p[id]) ELSE originalPrices[id]]

\* the price table after the loop over p
ApplyLoop(p) ==
    [id \in DOMAIN priceTable \cup Written(p) |->
        IF id \in Written(p) THEN MergedPrice(id, p[id]) ELSE priceTable[id]]

(* ------------------------------ the fetcher ---------------------------- *)
\* updatePrices handing its own argument on: Mod.fetchPrices(prices)
FetchArgPassed(a) == a # "false"

\* updatePrices calls Mod.fetchPrices() with no argument: fetchPrices = true
FetchArg(a) == TRUE

\* the cache file never consulted
NeedsFetchAlways(f) == TRUE

\* if (fetchPrices || !fs.existsSync(Mod.pricesPath))
NeedsFetch(f) == f \/ ~pricesFile.exists

\* retries < maxRetries: one attempt short
MayRetryStrict(r) == r < config.maxRetries

\* retries <= maxRetries
MayRetry(r) == r <= config.maxRetries

\* the delay forgotten
NextUpdateNow(t) == t

\* Math.floor(Date.now() / 1000) + 3600, the clock reading t
NextUpdate(t) == t + NextUpdateDelay

\* retries held in one counter that the cycles share, never started afresh
BeginShared(c, a, f) ==
    LET most == CHOOSE r \in {retries[d] : d \in Cycles} :
                   \A d \in Cycles : retries[d] <= r
    IN  /\ arg' = [arg EXCEPT ![c] = a]
        /\ forced' = [forced EXCEPT ![c] = f]
        /\ retries' = [retries EXCEPT ![c] = most]
        /\ regen' = [regen EXCEPT ![c] = 0]
        /\ pc' = [pc EXCEPT ![c] = "awaitFetch"]
        /\ attempts' = [attempts EXCEPT ![c] = 1]
        /\ prices' = [prices EXCEPT ![c] = <<>>]

\* fetchPrices(f, 1) entered by cycle c, called with a: up to its first await,
\* or to its return when the cache file is read
Begin(c, a, f) ==
    /\ arg' = [arg EXCEPT ![c] = a]
    /\ forced' = [forced EXCEPT ![c] = f]
    /\ retries' = [retries EXCEPT ![c] = 1]
    /\ regen' = [regen EXCEPT ![c] = 0]
    /\ IF NeedsFetch(f)
       THEN /\ pc' = [pc EXCEPT ![c] = "awaitFetch"]
            /\ attempts' = [attempts EXCEPT ![c] = 1]
            /\ prices' = [prices EXCEPT ![c] = <<>>]
       ELSE /\ pc' = [pc EXCEPT ![c] = "fetched"]
            /\ attempts' = [attempts EXCEPT ![c] = 0]
            /\ prices' = [prices EXCEPT ![c] = Parse(pricesFile.text)]

\* updatePrices of cycle c returns: its locals are gone
Return(c) ==
    /\ arg' = [arg EXCEPT ![c] = "undefined"]
    /\ forced' = [forced EXCEPT ![c] = TRUE]
    /\ retries' = [retries EXCEPT ![c] = 1]
    /\ attempts' = [attempts EXCEPT ![c] = 0]
    /\ prices' = [prices EXCEPT ![c] = <<>>]

\* the catch block without its clearInterval
CatchKeepsTimer(c) ==
    IF retries[c] <= config.maxRetries
    THEN /\ forced' = [forced EXCEPT ![c] = TRUE]
         /\ retries' = [retries EXCEPT ![c] = @ + 1]
         /\ attempts' = [attempts EXCEPT ![c] = @ + 1]
         /\ pc' = [pc EXCEPT ![c] = "awaitFetch"]
         /\ UNCHANGED <<updateTimer, startup>>
    ELSE /\ pc' = [pc EXCEPT ![c] = "failed"]
         /\ startup' = IF c = 0 /\ startup = "running" THEN "aborted" ELSE startup
         /\ UNCHANGED <<updateTimer, forced, retries, attempts>>

\* the catch block of fetchPrices in cycle c
Catch(c) ==
    IF MayRetry(retries[c])
    THEN /\ forced' = [forced EXCEPT ![c] = TRUE]
         /\ retries' = [retries EXCEPT ![c] = @ + 1]
         /\ attempts' = [attempts EXCEPT ![c] = @ + 1]
         /\ pc' = [pc EXCEPT ![c] = "awaitFetch"]
         /\ UNCHANGED <<updateTimer, startup>>
    ELSE /\ updateTimer' = IF updateTimer = "active" THEN "cleared" ELSE updateTimer
         /\ pc' = [pc EXCEPT ![c] = "failed"]
         /\ startup' = IF c = 0 /\ startup = "running" THEN "aborted" ELSE startup
         /\ UNCHANGED <<forced, retries, attempts>>

\* nextUpdate stamped before the request, so a rejected one has moved it
FetchRejectStamped(c) ==
    /\ pc[c] = "awaitFetch"
    /\ Catch(c)
    /\ config' = [config EXCEPT !["nextUpdate"] = NextUpdate(now)]
    /\ configFile' = File(Stringify(config'))
    /\ UNCHANGED <<now, pricesFile, originalPrices, host, arg, prices, regen>>

\* await fetch(...) rejects
FetchReject(c) ==
    /\ pc[c] = "awaitFetch"
    /\ Catch(c)
    /\ UNCHANGED <<now, disk, config, originalPrices, host, arg, prices, regen>>

\* await fetch(...) resolves with a response
FetchResolve(c) ==
    /\ pc[c] = "awaitFetch"
    /\ pc' = [pc EXCEPT ![c] = "awaitJson"]
    /\ UNCHANGED <<now, disk, config, originalPrices, updateTimer, host, startup,
                   arg, forced, retries, attempts, prices, regen>>

\* await response.json() rejects: the body is no JSON
JsonReject(c) ==
    /\ pc[c] = "awaitJson"
    /\ Catch(c)
    /\ UNCHANGED <<now, disk, config, originalPrices, host, arg, prices, regen>>

\* the retry called without return: a payload fetched on a retry is dropped
JsonResolveRetryDropped(c, payload, t) ==
    /\ pc[c] = "awaitJson"
    /\ now' = t
    /\ prices' = [prices EXCEPT ![c] = IF retries[c] > 1 THEN <<>> ELSE payload]
    /\ pricesFile' = File(Stringify(payload))
    /\ config' = [config EXCEPT !["nextUpdate"] = NextUpdate(t)]
    /\ configFile' = File(Stringify(config'))
    /\ pc' = [pc EXCEPT ![c] = "fetched"]
    /\ UNCHANGED <<originalPrices, updateTimer, host, startup, arg, forced,
                   retries, attempts, regen>>

\* await response.json() resolves with the payload; the rest of the try block
JsonResolve(c, payload, t) ==
    /\ pc[c] = "awaitJson"
    /\ now' = t
    /\ prices' = [prices EXCEPT ![c] = payload]
    /\ pricesFile' = File(Stringify(payload))
    /\ config' = [config EXCEPT !["nextUpdate"] = NextUpdate(t)]
    /\ configFile' = File(Stringify(config'))
    /\ pc' = [pc EXCEPT ![c] = "fetched"]
    /\ UNCHANGED <<originalPrices, updateTimer, host, startup, arg, forced,
                   retries, attempts, regen>>

\* Mod.fetchPrices(f) called on its own, in slot c
CallFetchPrices(c, f) ==
    /\ pc[c] = "idle"
    /\ Begin(c, "undefined", f)
    /\ UNCHANGED <<now, disk, config, originalPrices, updateTimer, host, startup>>

(* ----------------------------- updatePrices ---------------------------- *)
\* the loop writing through a snapshot that shares the live table (no clone)
ApplyPricesAliased(c) ==
    /\ pc[c] = "fetched"
    /\ priceTable' = ApplyLoop(prices[c])
    /\ originalPrices' = priceTable'
    /\ regen' = [regen EXCEPT ![c] = @ + 1]
    /\ pc' = [pc EXCEPT ![c] = "done"]
    /\ Return(c)
    /\ UNCHANGED <<now, disk, config, updateTimer, itemTable, handbook, startup>>

\* the loop and return true, the regeneration call left out
ApplyPricesNoRegen(c) ==
    /\ pc[c] = "fetched"
    /\ priceTable' = ApplyLoop(prices[c])
    /\ pc' = [pc EXCEPT ![c] = "done"]
    /\ Return(c)
    /\ UNCHANGED <<now, disk, config, originalPrices, updateTimer, itemTable,
                   handbook, startup, regen>>

\* updatePrices after await Mod.fetchPrices(): the loop, the regeneration, return true
ApplyPrices(c) ==
    /\ pc[c] = "fetched"
    /\ priceTable' = ApplyLoop(prices[c])
    /\ regen' = [regen EXCEPT ![c] = @ + 1]
    /\ pc' = [pc EXCEPT ![c] = "done"]
    /\ Return(c)
    /\ UNCHANGED <<now, disk, config, originalPrices, updateTimer, itemTable,
                   handbook, startup>>

(* ------------------------------ scheduler ------------------------------ *)
\* postDBLoadAsync up to the first await of its updatePrices call
PostDBLoadAsync(t) ==
    /\ startup = "init"
    /\ configFile.exists
    /\ config' = Parse(configFile.text)
    /\ originalPrices' = priceTable
    /\ now' = t
    /\ startup' = "running"
    /\ LET forceFetch == t > config'.nextUpdate
           a == IF forceFetch THEN "true" ELSE "false"
       IN  Begin(0, a, FetchArg(a))
    /\ UNCHANGED <<disk, updateTimer, host>>

\* setInterval reached before the startup cycle is awaited
RegisterTimerEarly ==
    /\ startup = "running"
    /\ updateTimer' = "active"
    /\ startup' = "scheduled"
    /\ UNCHANGED <<now, disk, config, originalPrices, host, cycle>>

\* setInterval reached whether the startup cycle resolved or rejected
RegisterTimerAnyway ==
    /\ startup \in {"running", "aborted"}
    /\ pc[0] \in {"done", "failed"}
    /\ updateTimer' = "active"
    /\ startup' = "scheduled"
    /\ UNCHANGED <<now, disk, config, originalPrices, host, cycle>>

\* postDBLoadAsync after await Mod.updatePrices() gave true: setInterval
RegisterTimer ==
    /\ startup = "running"
    /\ pc[0] = "done"
    /\ updateTimer' = "active"
    /\ startup' = "scheduled"
    /\ UNCHANGED <<now, disk, config, originalPrices, host, cycle>>

\* the slot a timer callback runs in: the lowest one not in flight
FreeSlot(slots) ==
    {c \in slots :
        /\ pc[c] \in {"idle", "done"}
        /\ \A d \in slots : d < c => pc[d] \notin {"idle", "done"}}

\* a callback that returns at once while a cycle is in flight
TimerTickExclusive(slots) ==
    /\ updateTimer = "active"
    /\ \A d \in Cycles : pc[d] \in {"idle", "done", "failed"}
    /\ \E c \in FreeSlot(slots) : Begin(c, "undefined", FetchArg("undefined"))
    /\ UNCHANGED <<now, disk, config, originalPrices, updateTimer, host, startup>>

\* a timer that fires once: setTimeout in place of setInterval
TimerTickOnce(slots) ==
    /\ updateTimer = "active"
    /\ \E c \in FreeSlot(slots) : Begin(c, "undefined", FetchArg("undefined"))
    /\ updateTimer' = "cleared"
    /\ UNCHANGED <<now, disk, config, originalPrices, host, startup>>

\* the interval fires: Mod.updatePrices() up to its first await
TimerTick(slots) ==
    /\ updateTimer = "active"
    /\ \E c \in FreeSlot(slots) : Begin(c, "undefined", FetchArg("undefined"))
    /\ UNCHANGED <<now, disk, config, originalPrices, updateTimer, host, startup>>

(* ---------------------------- the program ------------------------------ *)
Host(p, i, h) == [prices |-> p, items |-> i, handbook |-> h]

Handbooks ==
    { <<>>,
      <<[Id |-> "a", Price |-> 4]>>,
      <<[Id |-> "b", Price |-> 0], [Id |-> "a", Price |-> 2], [Id |-> "a", Price |-> 4]>> }

\* the host's tables when the database has loaded
Hosts == {Host(p, i, h) : p \in Objects(Ids, BaseVals), i \in SUBSET Ids, h \in Handbooks}

SomeHosts ==
    { Host([a |-> 2], {"a"}, <<>>),
      Host([a |-> 0, b |-> 4], {"a", "b"}, <<[Id |-> "a", Price |-> 4]>>) }

Configs ==
    {[nextUpdate |-> n, maxIncreaseMult |-> m, maxRetries |-> r] :
        n \in {0, NextUpdateDelay}, m \in MultVals, r \in 0 .. MaxRetries}

PriceFiles == {NoFile, File(Stringify([a |-> 3]))}

\* the state when the host has loaded its database and constructed the mod
Start(hosts, configs, files) ==
    /\ now = 0
    /\ configFile \in {File(Stringify(c)) : c \in configs}
    /\ pricesFile \in files
    /\ config = <<>>
    /\ originalPrices = <<>>
    /\ updateTimer = "undefined"
    /\ \E h \in hosts :
          /\ priceTable = h.prices
          /\ itemTable = h.items
          /\ handbook = h.handbook
    /\ startup = "init"
    /\ pc = [c \in Cycles |-> "idle"]
    /\ arg = [c \in Cycles |-> "undefined"]
    /\ forced = [c \in Cycles |-> TRUE]
    /\ retries = [c \in Cycles |-> 1]
    /\ attempts = [c \in Cycles |-> 0]
    /\ prices = [c \in Cycles |-> <<>>]
    /\ regen = [c \in Cycles |-> 0]

\* the steps of the cycles in slots, with timer callbacks started in timers
Steps(slots, timers) ==
    \/ \E t \in Clock : PostDBLoadAsync(t)
    \/ RegisterTimer
    \/ TimerTick(timers)
    \/ \E c \in slots : FetchReject(c)
    \/ \E c \in slots : FetchResolve(c)
    \/ \E c \in slots : JsonReject(c)
    \/ \E c \in slots, payload \in Payloads, t \in Clock : JsonResolve(c, payload, t)
    \/ \E c \in slots : ApplyPrices(c)

Init == Start(SomeHosts, Configs, PriceFiles)

Next == Steps(Cycles, TimerCycles)

Spec == Init /\ [][Next]_vars

\* the merger on every host table: the startup cycle, then timer cycles one at a time
InitMerge ==
    Start(Hosts, {c \in Configs : c.nextUpdate = 0 /\ c.maxRetries = 0}, {NoFile})

NextMerge == Steps({0, 1}, {1})

SpecMerge == InitMerge /\ [][NextMerge]_vars

\* the fetcher called on its own, forced or not, once the config is loaded
InitFetch ==
    /\ now = 0
    /\ config \in Configs
    /\ configFile = File(Stringify(config))
    /\ pricesFile \in PriceFiles
    /\ \E h \in SomeHosts :
          /\ priceTable = h.prices
          /\ originalPrices = h.prices
          /\ itemTable = h.items
          /\ handbook = h.handbook
    /\ updateTimer = "active"
    /\ startup = "scheduled"
    /\ pc = [c \in Cycles |-> "idle"]
    /\ arg = [c \in Cycles |-> "undefined"]
    /\ forced = [c \in Cycles |-> TRUE]
    /\ retries = [c \in Cycles |-> 1]
    /\ attempts = [c \in Cycles |-> 0]
    /\ prices = [c \in Cycles |-> <<>>]
    /\ regen = [c \in Cycles |-> 0]

NextFetch ==
    \/ \E c \in TimerCycles, f \in BOOLEAN : CallFetchPrices(c, f)
    \/ \E c \in TimerCycles : FetchReject(c)
    \/ \E c \in TimerCycles : FetchResolve(c)
    \/ \E c \in TimerCycles : JsonReject(c)
    \/ \E c \in TimerCycles, payload \in Payloads, t \in Clock : JsonResolve(c, payload, t)

SpecFetch == InitFetch /\ [][NextFetch]_vars

\* the program where the event loop runs what is ready: the host calls the hook,
\* the interval keeps firing, every request settles, every continuation runs
InitLive ==
    Start({Host([a |-> 2], {"a"}, <<>>)},
          {c \in Configs : c.nextUpdate = 0 /\ c.maxIncreaseMult = 3}, {NoFile})

Settles(c) ==
    \/ FetchReject(c)
    \/ FetchResolve(c)
    \/ JsonReject(c)
    \/ \E payload \in Payloads, t \in Clock : JsonResolve(c, payload, t)

LiveSpec ==
    /\ InitLive
    /\ [][Next]_vars
    /\ WF_vars(\E t \in Clock : PostDBLoadAsync(t))
    /\ WF_vars(RegisterTimer)
    /\ WF_vars(TimerTick(TimerCycles))
    /\ \A c \in Cycles : WF_vars(Settles(c)) /\ WF_vars(ApplyPrices(c))

(* ------------------------------ the claims ----------------------------- *)
\* cycle c runs its merge loop and returns in this step
Merges(c) == pc[c] = "fetched" /\ pc'[c] = "done"

\* fetched clamped to maxPrice, as the claims state it
Clamped(fetched, maxPrice) ==
    IF maxPrice # 0 /\ fetched <= maxPrice THEN fetched ELSE maxPrice

\* C1: when a merge cycle completes, every id both fetched and in the item table
\* has in the price table the fetched value if maxPrice = basePrice * maxIncreaseMult
\* is nonzero and not below it, and maxPrice otherwise (also when maxPrice is 0).
C1_MergeClamps ==
    [][\A c \in Cycles : Merges(c) =>
          \A id \in DOMAIN prices[c] \cap itemTable :
             /\ id \in DOMAIN priceTable'
             /\ priceTable'[id] =
                   Clamped(prices[c][id], Times(BasePrice(id), config.maxIncreaseMult))]_vars

\* the startup cycle has fetched the table p, stored it and merged it
MergedStartup(p) ==
    /\ pc[0] = "done"
    /\ startup = "running"
    /\ pricesFile = File(Stringify(p))

\* C1's case: base 1 and 2, multiplier 1.5: fetched 2.5 is clamped to 1.5 and
\* fetched 0.5 passes
C1_Witness ==
    /\ MergedStartup([a |-> 5, b |-> 1])
    /\ itemTable = {"a", "b"}
    /\ originalPrices = [a |-> 2, b |-> 4]
    /\ config.maxIncreaseMult = 3
    /\ priceTable = [a |-> 3, b |-> 1]

\* C2: no step writes, adds or removes the price table entry of an id that the
\* item table does not hold.
C2_AbsentItemsUntouched ==
    [][\A id \in Ids \ itemTable :
          /\ id \in DOMAIN priceTable' <=> id \in DOMAIN priceTable
          /\ id \in DOMAIN priceTable => priceTable'[id] = priceTable[id]]_vars

\* C2's case: b was fetched, is no item, and has kept its price after the merge
C2_Witness ==
    /\ MergedStartup([a |-> 5, b |-> 1])
    /\ itemTable = {"a"}
    /\ originalPrices = [a |-> 2, b |-> 4]
    /\ priceTable # originalPrices
    /\ priceTable["b"] = 4

\* basePrice as C3 states it: the snapshot's entry whenever there is one
ClaimedBasePrice(id) ==
    IF id \in DOMAIN originalPrices THEN originalPrices[id] ELSE HandbookPrice(id)

\* basePrice as C3 is amended: the snapshot's entry when it is there and nonzero,
\* else the Price of the first handbook entry of the id, else 0
AmendedBasePrice(id) ==
    IF id \in DOMAIN originalPrices /\ originalPrices[id] # 0
    THEN originalPrices[id]
    ELSE IF \E i \in DOMAIN handbook : handbook[i].Id = id
         THEN handbook[CHOOSE i \in DOMAIN handbook :
                          /\ handbook[i].Id = id
                          /\ \A j \in 1 .. i - 1 : handbook[j].Id # id].Price
         ELSE 0

\* C3 as stated: a merge uses the snapshot entry as basePrice whenever the snapshot
\* has one, whatever its value, and writes the price clamped by it.
C3_AsStated ==
    [][\A c \in Cycles : Merges(c) =>
          \A id \in DOMAIN prices[c] \cap itemTable :
             /\ BasePrice(id) = ClaimedBasePrice(id)
             /\ priceTable'[id] =
                   Clamped(prices[c][id],
                           Times(ClaimedBasePrice(id), config.maxIncreaseMult))]_vars

\* C3, amended: a merge uses as basePrice the snapshot entry when it is there and
\* nonzero, otherwise the handbook's first entry for the id, otherwise 0, and
\* writes the price clamped by it.
C3_BasePriceOrder ==
    [][\A c \in Cycles : Merges(c) =>
          \A id \in DOMAIN prices[c] \cap itemTable :
             /\ BasePrice(id) = AmendedBasePrice(id)
             /\ priceTable'[id] =
                   Clamped(prices[c][id],
                           Times(AmendedBasePrice(id), config.maxIncreaseMult))]_vars

\* C3's case: a has the snapshot entry 0 and the handbook price 2 (first of two
\* entries), b has neither: a is clamped by 2 * 1.5, b is written 0
C3_Witness ==
    /\ MergedStartup([a |-> 5, b |-> 1])
    /\ itemTable = {"a", "b"}
    /\ originalPrices = [a |-> 0]
    /\ Len(handbook) = 3
    /\ config.maxIncreaseMult = 3
    /\ priceTable = [a |-> 3, b |-> 0]

\* an attempt of cycle c fails in this step
Fails(c) ==
    /\ pc[c] \in {"awaitFetch", "awaitJson"}
    /\ \/ pc'[c] = "failed"
       \/ pc'[c] = "awaitFetch" /\ attempts'[c] # attempts[c]

\* C4: with maxRetries = N a fetchPrices call never makes more than N + 1
\* attempts; a failed attempt before the (N+1)-th is followed by one more attempt
\* and leaves the timer alone; the (N+1)-th failure cancels the timer and
\* propagates, and nothing else cancels the timer.
C4_RetryExhaustion ==
    [][/\ \A c \in Cycles : attempts'[c] <= config'.maxRetries + 1
       /\ \A c \in Cycles : Fails(c) =>
             IF attempts[c] = config.maxRetries + 1
             THEN /\ pc'[c] = "failed"
                  /\ attempts'[c] = attempts[c]
                  /\ updateTimer' # "active"
                  /\ c = 0 => startup' = "aborted"
             ELSE /\ pc'[c] = "awaitFetch"
                  /\ attempts'[c] = attempts[c] + 1
                  /\ UNCHANGED <<updateTimer, startup>>
       /\ (updateTimer = "active" /\ updateTimer' # "active") =>
             \E c \in Cycles : Fails(c) /\ attempts[c] = config.maxRetries + 1]_vars

\* C4's case: maxRetries = 1, a timer cycle failed twice and cancelled the timer
C4_Witness ==
    /\ startup = "scheduled"
    /\ config.maxRetries = 1
    /\ pc[1] = "failed"
    /\ attempts[1] = 2
    /\ updateTimer = "cleared"

\* C5: the step in which a fetch attempt succeeds on the clock reading now leaves
\* the cache file holding exactly the payload, and Mod.config and the config file
\* with nextUpdate = now + 3600 and maxIncreaseMult and maxRetries as before.
C5_SuccessPersists ==
    [][\A c \in Cycles : (pc[c] = "awaitJson" /\ pc'[c] = "fetched") =>
          /\ pricesFile'.exists
          /\ Parse(pricesFile'.text) = prices'[c]
          /\ Len(pricesFile'.text) = Cardinality(DOMAIN prices'[c])
          /\ config'.nextUpdate = now' + 3600
          /\ config'.maxIncreaseMult = config.maxIncreaseMult
          /\ config'.maxRetries = config.maxRetries
          /\ configFile'.exists
          /\ Parse(configFile'.text) = config'
          /\ Len(configFile'.text) = 3]_vars

\* C5's case: the startup fetch got [a |-> 5] on the clock reading 2, over a
\* config whose nextUpdate was 3600
C5_Witness ==
    /\ pc[0] = "fetched"
    /\ prices[0] = [a |-> 5]
    /\ now = 2
    /\ arg[0] = "false"
    /\ config.nextUpdate = 3602
    /\ configFile = File(Stringify(config))
    /\ pricesFile = File(<<<<"a", 5>>>>)

\* C6: fetchPrices called unforced while the cache file exists returns at once the
\* parsed file, with no network call, and leaves the cache file, the config file
\* and Mod.config as they were.
C6_CacheReadOnly ==
    [][\A c \in Cycles :
          (pc[c] = "idle" /\ pc'[c] # "idle" /\ ~forced'[c] /\ pricesFile.exists) =>
             /\ pc'[c] = "fetched"
             /\ attempts'[c] = 0
             /\ prices'[c] = Parse(pricesFile.text)
             /\ UNCHANGED <<pricesFile, configFile, config>>]_vars

\* C6's case: an unforced call returned the table an earlier, forced call of slot 1
\* had fetched and stored
C6_Witness ==
    /\ pc[1] = "fetched"
    /\ forced[1]
    /\ pc[2] = "fetched"
    /\ ~forced[2]
    /\ attempts[2] = 0
    /\ prices[2] = [a |-> 5, b |-> 1]
    /\ pricesFile = File(Stringify(prices[2]))

\* C7: every merge cycle in flight has made a network attempt, and the price
\* table changes only in the merge of a cycle that has made one, whatever the
\* startup decision forceFetch and whether or not the cache file exists.
C7_AlwaysLiveFetch ==
    [][/\ \A c \in Cycles :
             pc'[c] \in {"awaitFetch", "awaitJson", "fetched"} => attempts'[c] >= 1
       /\ priceTable' # priceTable =>
             \E c \in Cycles : Merges(c) /\ attempts[c] >= 1]_vars

\* C7's case: the startup cycle decided forceFetch = false, the cache file exists,
\* and the cycle has fetched over the network all the same
C7_Witness ==
    /\ pc[0] = "awaitJson"
    /\ arg[0] = "false"
    /\ pricesFile.exists
    /\ attempts[0] = 1

\* C8: once the startup cycle has failed, initialization has aborted, the timer
\* was never registered, and no timer-triggered cycle has started.
C8_FailedStartupNoTimer ==
    pc[0] = "failed" =>
       /\ startup = "aborted"
       /\ updateTimer = "undefined"
       /\ \A c \in TimerCycles : pc[c] = "idle"

\* C8's case: the startup cycle exhausted its retries
C8_Witness ==
    /\ pc[0] = "failed"
    /\ startup = "aborted"
    /\ attempts[0] = config.maxRetries + 1

\* C9: the step in which a timer-triggered cycle exhausts its retries cancels the
\* timer and ends that cycle as failed, and once a timer-triggered cycle has
\* failed no cycle is started and the timer is not active again.
C9_ExhaustionStopsTimer ==
    [][/\ \A c \in TimerCycles :
             (pc[c] # "failed" /\ pc'[c] = "failed") => updateTimer' = "cleared"
       /\ (\E c \in TimerCycles : pc[c] = "failed") =>
             /\ updateTimer' = "cleared"
             /\ \A d \in Cycles :
                   pc[d] \in {"idle", "done"} => pc'[d] = pc[d]]_vars

\* C9's case: a timer cycle failed while another was in flight, which has since
\* merged; the timer is cancelled
C9_Witness ==
    /\ pc[1] = "failed"
    /\ pc[2] = "done"
    /\ regen[2] = 1
    /\ updateTimer = "cleared"

\* some cycle has exhausted its retries
Exhausted == \E c \in Cycles : pc[c] = "failed"

\* C10: a startup cycle that succeeds leads to the timer being registered; the
\* registered timer stays active unless a cycle has exhausted its retries; and
\* then timer callbacks start merge cycles again and again, for ever, unless a
\* cycle exhausts its retries.
C10_TimerKeepsFiring ==
    /\ [](pc[0] = "done" => <>(startup = "scheduled"))
    /\ [](startup = "scheduled" => (updateTimer = "active" \/ Exhausted))
    /\ \/ []<><<TimerTick(TimerCycles)>>_vars
       \/ <>Exhausted

\* C10's case: the timer is registered and a callback has started a cycle while
\* the one before it has completed
C10_Witness ==
    /\ startup = "scheduled"
    /\ updateTimer = "active"
    /\ pc[1] = "done"
    /\ pc[2] = "awaitFetch"
    /\ ~Exhausted

\* cycle c is in flight: started, and neither returned nor failed
InFlight(c) == pc[c] \in {"awaitFetch", "awaitJson", "fetched"}

\* C11: while the startup cycle is in flight the timer is not registered and no
\* timer-triggered cycle has started.
C11_StartupRunsAlone ==
    InFlight(0) =>
       /\ startup = "running"
       /\ updateTimer = "undefined"
       /\ \A c \in TimerCycles : pc[c] = "idle"

\* C11's case: the startup cycle is in flight, on its second attempt
C11_Witness ==
    /\ pc[0] = "awaitJson"
    /\ attempts[0] = 2
    /\ \A c \in TimerCycles : pc[c] = "idle"

\* C12: nothing excludes a timer callback while a timer-triggered cycle is in
\* flight: whenever the timer is active and a slot of the model is free, the
\* callback can start a cycle, so two timer-triggered cycles overlap.
C12_CallbacksOverlap ==
    (/\ updateTimer = "active"
     /\ \E c \in TimerCycles : InFlight(c)
     /\ \E c \in TimerCycles : ~InFlight(c))
       => ENABLED TimerTick(TimerCycles)

\* C12's case: a callback has started a cycle while the cycle of an earlier
\* callback waits for its fetch
C12_Witness ==
    /\ updateTimer = "active"
    /\ pc[1] = "awaitJson"
    /\ pc[2] = "awaitFetch"
    /\ attempts[2] = 1

\* C13: initialization captures the snapshot as the price table of that moment and
\* leaves the table alone; from then on no step changes the snapshot, however many
\* merges write the live table.
C13_SnapshotImmutable ==
    [][/\ (startup = "init" /\ startup' # "init") =>
             originalPrices' = priceTable /\ priceTable' = priceTable
       /\ startup # "init" => originalPrices' = originalPrices]_vars

\* C13's case: the startup cycle and a timer cycle have merged, the live table
\* differs from the snapshot
C13_Witness ==
    /\ pc[0] = "done"
    /\ pc[1] = "done"
    /\ originalPrices = [a |-> 0, b |-> 4]
    /\ priceTable = [a |-> 1, b |-> 5]

Succeeds(c) == pc[c] = "awaitJson" /\ pc'[c] = "fetched"

\* C15: a failed attempt, and every other step of a cycle that is not a
\* successful attempt or a merge, leaves the price table, the cache file, the
\* config file and Mod.config alone; nextUpdate changes, in memory and on disk,
\* only in a successful attempt; so a startup cycle that has failed has left the
\* table as the snapshot and the config as the file it was loaded from.
C15_FailureChangesNothing ==
    [][/\ (\E c \in Cycles : Fails(c)) =>
             UNCHANGED <<priceTable, pricesFile, configFile, config>>
       /\ startup # "init" =>
             \/ \E c \in Cycles : Succeeds(c)
             \/ UNCHANGED <<pricesFile, configFile, config>>
       /\ pc'[0] = "failed" =>
             /\ priceTable' = originalPrices'
             /\ pricesFile' \in PriceFiles
             /\ config' \in Configs
             /\ configFile' = File(Stringify(config'))]_vars

\* C15's case: a timer cycle has failed on every attempt; the files and the
\* config are as the startup cycle's fetch, on the clock reading 1, left them
C15_Witness ==
    /\ pc[0] = "done"
    /\ pc[1] = "failed"
    /\ pc[2] = "idle"
    /\ attempts[1] = config.maxRetries + 1
    /\ config.nextUpdate = 3601
    /\ configFile = File(Stringify(config))
    /\ pricesFile = File(Stringify([a |-> 5]))
    /\ priceTable = [a |-> 3]

\* C16: an attempt that succeeds after failed ones returns its own payload, the
\* one it stores, and leaves the timer and the startup alone; the cycle has made
\* no more than maxRetries + 1 attempts and its merge writes the clamp of that
\* payload.
C16_RetrySucceeds ==
    [][\A c \in Cycles :
          /\ (Succeeds(c) /\ attempts[c] >= 2) =>
                /\ attempts[c] <= config.maxRetries + 1
                /\ attempts'[c] = attempts[c]
                /\ prices'[c] = Parse(pricesFile'.text)
                /\ UNCHANGED <<updateTimer, startup>>
          /\ (Merges(c) /\ attempts[c] >= 2) =>
                /\ UNCHANGED <<updateTimer, startup>>
                /\ \A id \in DOMAIN prices[c] \cap itemTable :
                      priceTable'[id] =
                         Clamped(prices[c][id],
                                 Times(BasePrice(id), config.maxIncreaseMult))]_vars

\* C16's case: a timer cycle failed once, then fetched [a |-> 5, b |-> 1]; the
\* timer is still active
C16_Witness ==
    /\ pc[1] = "fetched"
    /\ attempts[1] = 2
    /\ prices[1] = [a |-> 5, b |-> 1]
    /\ pricesFile = File(Stringify(prices[1]))
    /\ updateTimer = "active"

\* C17: every cycle starts with retries = 1 and its first attempt, whatever
\* happened in the cycles before and beside it; a cycle in flight has made between
\* 1 and maxRetries + 1 attempts, as many as its retries; and a cycle fails only
\* on its own (maxRetries + 1)-th attempt.
C17_RetryBudgetPerCycle ==
    [][\A c \in Cycles :
          /\ (pc[c] \in {"idle", "done"} /\ (InFlight(c))') =>
                retries'[c] = 1 /\ attempts'[c] = 1
          /\ (InFlight(c))' =>
                /\ attempts'[c] >= 1
                /\ attempts'[c] <= config'.maxRetries + 1
                /\ retries'[c] = attempts'[c]
          /\ (pc[c] # "failed" /\ pc'[c] = "failed") =>
                attempts[c] = config.maxRetries + 1]_vars

\* C17's case: maxRetries = 1; a timer cycle is on its first attempt after the
\* startup cycle needed two attempts and while another timer cycle is on its
\* second
C17_Witness ==
    /\ pc[0] = "done"
    /\ config.maxRetries = 1
    /\ pc[1] = "awaitFetch"
    /\ attempts[1] = 2
    /\ pc[2] = "awaitFetch"
    /\ attempts[2] = 1
    /\ retries[2] = 1

\* no cycle is in flight and the startup cycle has merged
Quiet == pc[0] = "done" /\ \A c \in Cycles : ~InFlight(c)

\* C18: with cycles that do not overlap, whenever no cycle is in flight the cache
\* file holds the payload of the latest merge, and merging that payload once more
\* would leave the price table exactly as it is.
C18_MergeIdempotent ==
    Quiet => /\ pricesFile.exists
             /\ ApplyLoop(Parse(pricesFile.text)) = priceTable

\* C18's case: the startup cycle and a timer cycle have merged; a was clamped from
\* 2.5 to 1.5 by the snapshot's 1, and the live 1.5 does not move the clamp
C18_Witness ==
    /\ Quiet
    /\ pc[1] = "done"
    /\ pricesFile = File(Stringify([a |-> 5, b |-> 1]))
    /\ itemTable = {"a", "b"}
    /\ originalPrices = [a |-> 2, b |-> 4]
    /\ config.maxIncreaseMult = 3
    /\ priceTable = [a |-> 3, b |-> 1]

\* C19: no step removes an entry of the price table, and a merge leaves every
\* entry whose id its fetched prices do not hold at the value it had.
C19_UnfetchedEntriesKept ==
    [][/\ DOMAIN priceTable \subseteq DOMAIN priceTable'
       /\ \A c \in Cycles : Merges(c) =>
             \A id \in DOMAIN priceTable \ DOMAIN prices[c] :
                priceTable'[id] = priceTable[id]]_vars

\* C19's case: b was written 0.5 by the startup merge over a snapshot of 2; the
\* timer cycle's payload [a |-> 5] has no b, and b is still 0.5
C19_Witness ==
    /\ Quiet
    /\ pc[1] = "done"
    /\ pricesFile = File(Stringify([a |-> 5]))
    /\ itemTable = {"a", "b"}
    /\ originalPrices = [a |-> 2, b |-> 4]
    /\ priceTable["b"] = 1

====
